---- MODULE Spec2Model ----
(***************************************************************************)
(* Model of backend/whois_rdap_service.py: the POST /whois-lookup endpoint *)
(* (whois_lookup_endpoint), the streaming generator                        *)
(* (lookup_and_stream_generator) and the two lookups it drives             *)
(* (query_rdap, query_whois).                                              *)
(*                                                                         *)
(* Python strings are TLA+ strings (TLC evaluates Len, SubSeq, Head, Tail  *)
(* and \o on them), so strip(), lower(), "x in s" and the f-strings of the *)
(* source are computed character by character.  A JSON value of a result   *)
(* payload is JStr(s) for a string and JList(l) for a list of strings.     *)
(* The data of an event is the object handed to json.dumps.                *)
(***************************************************************************)
EXTENDS Integers, Sequences, FiniteSets, TLC

\* ---------------------------------------------------------------- bounds
\* Largest number of entries in the submitted `domains` list.
MaxBatch == 2
\* Entries of a request in the runs of the validation loop alone.
MaxSubmitted == 3
\* Most status values in one raw answer.
MaxStatuses == 2
\* Entries beyond the batch limit in the runs around that limit.
Oversize == 100

\* ------------------------------------------------------ string primitives
UpperChars == "ABCDEFGHIJKLMNOPQRSTUVWXYZ"
LowerChars == "abcdefghijklmnopqrstuvwxyz"
Whitespace == {" ", "\t", "\n", "\r"}

\* TLC hands an operator its arguments unevaluated and, inside ENABLED,
\* evaluates them again at every use.  With applies Op to the value of x.
With(x, Op(_)) == CHOOSE r \in {Op(v) : v \in {x}} : TRUE
With2(x, y, Op(_, _)) == CHOOSE r \in {Op(v, w) : v \in {x}, w \in {y}} : TRUE
With3(x, y, z, Op(_, _, _)) ==
    CHOOSE r \in {Op(u, v, w) : u \in {x}, v \in {y}, w \in {z}} : TRUE

Min(S) == CHOOSE x \in S : \A y \in S : x <= y
Max(S) == CHOOSE x \in S : \A y \in S : x >= y

CharAt(s, i) == SubSeq(s, i, i)

\* Where sub occurs in s.
Occurrences(s, sub) ==
    {i \in 1..(Len(s) - Len(sub) + 1) : SubSeq(s, i, i + Len(sub) - 1) = sub}

\* `sub in s`
Contains(s, sub) == With2(s, sub, LAMBDA v, w : Occurrences(v, w) # {})

\* s.endswith(suffix)
EndsWith(s, suffix) ==
    With2(s, suffix, LAMBDA v, w :
        /\ Len(w) <= Len(v)
        /\ SubSeq(v, Len(v) - Len(w) + 1, Len(v)) = w)

LowerChar(c) ==
    With(c, LAMBDA ch :
        LET at == Occurrences(UpperChars, ch)
        IN  IF at # {} THEN CharAt(LowerChars, Min(at)) ELSE ch)

UpperChar(c) ==
    With(c, LAMBDA ch :
        LET at == Occurrences(LowerChars, ch)
        IN  IF at # {} THEN CharAt(UpperChars, Min(at)) ELSE ch)

RECURSIVE Lower(_)
\* s.lower(), halving the string
Lower(s) ==
    With(s, LAMBDA v :
        IF Len(v) <= 1 THEN LowerChar(v)
        ELSE Lower(SubSeq(v, 1, Len(v) \div 2))
                 \o Lower(SubSeq(v, Len(v) \div 2 + 1, Len(v))))

RECURSIVE Upper(_)
\* s.upper()
Upper(s) ==
    With(s, LAMBDA v :
        IF Len(v) <= 1 THEN UpperChar(v)
        ELSE Upper(SubSeq(v, 1, Len(v) \div 2))
                 \o Upper(SubSeq(v, Len(v) \div 2 + 1, Len(v))))

\* Positions of s whose character is not in chars.
Kept(s, chars) == {i \in 1..Len(s) : CharAt(s, i) \notin chars}

\* s.lstrip(chars)
LStripChars(s, chars) ==
    With(s, LAMBDA v :
        With(Kept(v, chars), LAMBDA keep :
            IF keep = {} THEN "" ELSE SubSeq(v, Min(keep), Len(v))))

\* s.rstrip(chars)
RStripChars(s, chars) ==
    With(s, LAMBDA v :
        With(Kept(v, chars), LAMBDA keep :
            IF keep = {} THEN "" ELSE SubSeq(v, 1, Max(keep))))

\* s.strip()
Strip(s) == RStripChars(LStripChars(s, Whitespace), Whitespace)

RECURSIVE SplitAny(_, _)
\* Split s at every character of seps (one piece more than separators).
SplitAny(s, seps) ==
    With(s, LAMBDA v :
        With({i \in 1..Len(v) : CharAt(v, i) \in seps}, LAMBDA at :
            IF at = {} THEN <<v>>
            ELSE <<SubSeq(v, 1, Min(at) - 1)>>
                     \o SplitAny(SubSeq(v, Min(at) + 1, Len(v)), seps)))

\* s.split(sep) for a one-character sep
SplitOn(s, sep) == SplitAny(s, {sep})

\* s.splitlines(): like split("\n") without the empty piece a trailing
\* newline (or an empty string) would leave.
SplitLines(s) ==
    With(SplitOn(s, "\n"), LAMBDA pieces :
        IF pieces[Len(pieces)] = "" THEN SubSeq(pieces, 1, Len(pieces) - 1)
        ELSE pieces)

\* s.split(sub, 1)[0]: the text before the first sub, all of s without one.
BeforeFirst(s, sub) ==
    With(s, LAMBDA v :
        With(Occurrences(v, sub), LAMBDA at :
            IF at = {} THEN v ELSE SubSeq(v, 1, Min(at) - 1)))

\* s.split(sub, 1)[-1]: the text after the first sub, all of s without one.
AfterFirst(s, sub) ==
    With(s, LAMBDA v :
        With(Occurrences(v, sub), LAMBDA at :
            IF at = {} THEN v ELSE SubSeq(v, Min(at) + Len(sub), Len(v))))

\* s.rsplit(sub, 1)[-1]: the text after the last sub, all of s without one.
AfterLast(s, sub) ==
    With(s, LAMBDA v :
        With(Occurrences(v, sub), LAMBDA at :
            IF at = {} THEN v ELSE SubSeq(v, Max(at) + Len(sub), Len(v))))

Range(f) == {f[i] : i \in DOMAIN f}

\* ------------------------------------------------------------ JSON values
JStr(s) == [str |-> s]
JList(l) == [list |-> l]

\* dict[key] = value
Put(dict, key, value) ==
    [k \in (DOMAIN dict) \cup {key} |-> IF k = key THEN value ELSE dict[k]]

\* dict.get(key, default)
Get(dict, key, default) == IF key \in DOMAIN dict THEN dict[key] ELSE default

EmptyDict == [k \in {} |-> JStr("")]

\* ------------------------------------------------------ program constants
ALLOWED_FIELDS ==
    {"domain", "registrar", "registrant_name", "statuses", "creation_date",
     "nexus_categories", "nameservers"}

MAX_DOMAINS == 500
MAX_DOMAIN_LEN == 255

\* ------------------------------------------------- query_rdap: normalizer
\* The record query_rdap returns for neustar.biz without any network call.
NeustarSpecial ==
    [domain           |-> JStr("neustar.biz"),
     registrar        |-> JStr("Registry Services, LLC"),
     statuses         |-> JList(<<"clientDeleteProhibited",
                                  "clientTransferProhibited",
                                  "clientUpdateProhibited",
                                  "serverDeleteProhibited",
                                  "serverTransferProhibited",
                                  "serverUpdateProhibited">>),
     creation_date    |-> JStr("2001-11-07T00:00:00Z"),
     registrant_name  |-> JStr("Not available via RDAP"),
     nexus_categories |-> JStr("Not available via RDAP"),
     nameservers      |-> JList(<<"ns1.dns.nic.biz", "ns2.dns.nic.biz">>)]

IsNeustar(domain_query) == Lower(domain_query) = "neustar.biz"

\* tld = domain_query.split('.')[-1].lower()
Tld(domain_query) ==
    With(SplitOn(domain_query, "."), LAMBDA parts : Lower(parts[Len(parts)]))

\* The scan of the bootstrap document for the first service entry that lists
\* the tld and has a server: an entry is <<tlds, urls>>.  "" when none.
RECURSIVE FindRdapServer(_, _)
FindRdapServer(services, tld) ==
    With2(services, tld, LAMBDA rest, t :
        IF rest = <<>> THEN ""
        ELSE LET service_entry == Head(rest)
             IN  IF /\ \E j \in DOMAIN service_entry[1] :
                           t = Lower(service_entry[1][j])
                    /\ Len(service_entry[2]) > 0
                 THEN service_entry[2][1]
                 ELSE FindRdapServer(Tail(rest), t))

\* Both branches for a found server build the same string; the one without
\* a trailing slash gets no slash added.
RdapQueryUrl(rdap_server_url, domain_query) ==
    IF rdap_server_url = "" THEN "https://rdap.org/domain/" \o domain_query
    ELSE IF ~EndsWith(rdap_server_url, "/")
         THEN rdap_server_url \o "domain/" \o domain_query
         ELSE rdap_server_url \o "domain/" \o domain_query

\* fn of the first entity with the registrar role, "Not found" without one.
\* An entity is [roles |-> seq of strings, fn |-> <<>> or <<name>>].
RdapRegistrar(data) ==
    LET regs == {j \in DOMAIN data.entities :
                    "registrar" \in Range(data.entities[j].roles)}
    IN  IF regs = {} THEN "Not found"
        ELSE LET e == data.entities[CHOOSE j \in regs : \A k \in regs : j <= k]
             IN  IF e.fn # <<>> THEN e.fn[1] ELSE "Not found"

\* Status values gathered from the payload: the top-level `status` list and
\* the `domainStatus` list.
RdapRawStatuses(data) == data.status \o data.domainStatus

RECURSIVE StripNonEmpty(_)
\* [p.strip() for p in pieces if p.strip()], by halves of the list.
StripNonEmpty(pieces) ==
    With(pieces, LAMBDA ps :
        IF ps = <<>> THEN <<>>
        ELSE IF Len(ps) = 1
        THEN With(Strip(ps[1]), LAMBDA p : IF p = "" THEN <<>> ELSE <<p>>)
        ELSE StripNonEmpty(SubSeq(ps, 1, Len(ps) \div 2))
                 \o StripNonEmpty(SubSeq(ps, Len(ps) \div 2 + 1, Len(ps))))

\* re.split(r"[;\n,]+", status), each piece stripped, empty pieces dropped.
StatusPieces(status) == StripNonEmpty(SplitAny(status, {";", "\n", ","}))

extract_status_code(s0) ==
    With(Strip(s0), LAMBDA s1 :
        LET s2 == IF Contains(s1, "http://") \/ Contains(s1, "https://")
                  THEN With(Strip(BeforeFirst(s1, " http")), LAMBDA pre :
                           IF pre # "" THEN pre
                           ELSE IF Contains(s1, "#") THEN AfterLast(s1, "#")
                           ELSE AfterLast(RStripChars(s1, {"/"}), "/"))
                  ELSE s1
        IN  IF s1 = "" THEN "" ELSE RStripChars(s2, {" ", ";", "."}))

RECURSIVE FormatPieces(_, _)
\* The inner loop over the pieces of one status value.
FormatPieces(parts, formatted_statuses) ==
    With2(parts, formatted_statuses, LAMBDA rest, formatted :
        IF rest = <<>> THEN formatted
        ELSE With(extract_status_code(Head(rest)), LAMBDA code :
                 FormatPieces(Tail(rest),
                     IF code # "" /\ code # "Not found"
                        /\ code \notin Range(formatted)
                     THEN Append(formatted, code)
                     ELSE formatted)))

RECURSIVE FormatRdapStatuses(_, _)
\* The outer loop over the gathered status values.
FormatRdapStatuses(statuses, formatted_statuses) ==
    With2(statuses, formatted_statuses, LAMBDA rest, formatted :
        IF rest = <<>> THEN formatted
        ELSE FormatRdapStatuses(Tail(rest),
                 FormatPieces(StatusPieces(Head(rest)), formatted)))

RdapStatuses(data) ==
    With(RdapRawStatuses(data), LAMBDA statuses :
        IF statuses # <<>> THEN FormatRdapStatuses(statuses, <<>>)
        ELSE <<"Not found">>)

\* eventDate of the first registration event.
RdapCreationDate(data) ==
    LET regs == {j \in DOMAIN data.events :
                    data.events[j].eventAction = "registration"}
    IN  IF regs = {} THEN "Not found"
        ELSE data.events[CHOOSE j \in regs : \A k \in regs : j <= k].eventDate

RECURSIVE LdhNames(_)
\* ldhName of every nameserver entry that has one ("" stands for none).
LdhNames(nameservers) ==
    With(nameservers, LAMBDA rest :
        IF rest = <<>> THEN <<>>
        ELSE (IF Head(rest).ldhName # ""
              THEN <<Head(rest).ldhName>> ELSE <<>>)
             \o LdhNames(Tail(rest)))

RdapNameservers(data) ==
    With(LdhNames(data.nameservers), LAMBDA nameservers :
        IF nameservers = <<>> THEN <<"Not found">> ELSE nameservers)

\* RdapParsed with the WHOIS wording for nexus_categories.
RdapParsed_WhoisNexus(domain_query, data) ==
    [domain           |-> JStr(domain_query),
     registrar        |-> JStr(RdapRegistrar(data)),
     statuses         |-> JList(RdapStatuses(data)),
     creation_date    |-> JStr(RdapCreationDate(data)),
     registrant_name  |-> JStr("Not available via RDAP"),
     nexus_categories |-> JStr("N/A (not .US domain)"),
     nameservers      |-> JList(RdapNameservers(data))]

\* The record query_rdap builds from a parsed response.
RdapParsed(domain_query, data) ==
    [domain           |-> JStr(domain_query),
     registrar        |-> JStr(RdapRegistrar(data)),
     statuses         |-> JList(RdapStatuses(data)),
     creation_date    |-> JStr(RdapCreationDate(data)),
     registrant_name  |-> JStr("Not available via RDAP"),
     nexus_categories |-> JStr("Not available via RDAP"),
     nameservers      |-> JList(RdapNameservers(data))]

\* The exceptions query_rdap raises, by their message.
RdapNotFoundMsg(domain_query) ==
    "RDAP: Domain " \o domain_query \o " not found."

RdapRateLimitMsg == "RDAP: Rate limit reached."

RdapHttpErrorMsg(domain_query, status_code, e) ==
    "RDAP lookup for " \o domain_query \o " failed: HTTP "
        \o ToString(status_code) \o " - " \o e

RdapRequestErrorMsg(domain_query, e) ==
    "RDAP lookup for " \o domain_query \o " failed: Request Error - " \o e

RdapOtherErrorMsg(domain_query, e) ==
    "RDAP lookup for " \o domain_query \o " failed: " \o e

\* except httpx.HTTPStatusError
RdapStatusErrorMsg(domain_query, status_code, e) ==
    IF status_code = 404 THEN RdapNotFoundMsg(domain_query)
    ELSE IF status_code = 429 THEN RdapRateLimitMsg
    ELSE RdapHttpErrorMsg(domain_query, status_code, e)


\* ------------------------------------------------ query_whois: normalizer
\* The object whois.query returns is [registrar, text, statuses, status,
\* creation_date, name_servers]; "" stands for an attribute that is None or
\* missing, creation_date is the ISO rendering of the date.

\* The exceptions query_whois raises inside its try block for an answer that
\* matches no record; "" when the answer is usable.  w_none: the library
\* returned None.
WhoisInnerError(domain_query, w_none, w) ==
    IF w_none
       \/ Contains(w.text, "No match for domain")
       \/ Contains(Upper(w.text), "NOT FOUND")
    THEN "WHOIS: Domain " \o domain_query \o " not found."
    ELSE IF w.registrar = "" /\ w.text = ""
    THEN "WHOIS: Domain " \o domain_query
             \o " not found or lookup failed (no registrar)."
    ELSE ""

\* except Exception as e: the message of the exception that leaves
\* query_whois, from str(e) of the one caught.
WhoisErrorMsg(domain_query, e) ==
    With(e, LAMBDA str_e :
        IF Contains(Lower(str_e), "limit")
        THEN "WHOIS: Rate limit reached for " \o domain_query \o "."
        ELSE "WHOIS lookup for " \o domain_query \o " failed: " \o str_e)

IsDotUs(domain_query) == EndsWith(Lower(domain_query), ".us")

RECURSIVE FirstRegistrantLine(_)
\* Value of the first line naming the registrant, "Not found" without one.
FirstRegistrantLine(lines) ==
    With(lines, LAMBDA rest :
        IF rest = <<>> THEN "Not found"
        ELSE IF Contains(Head(rest), "Registrant Name:")
                \/ Contains(Head(rest), "registrant:")
             THEN Strip(AfterFirst(Head(rest), ":"))
             ELSE FirstRegistrantLine(Tail(rest)))

WhoisRegistrantName(domain_query, w) ==
    IF IsDotUs(domain_query) THEN "Not found"
    ELSE FirstRegistrantLine(SplitLines(w.text))

WhoisRawStatuses(w) ==
    IF w.statuses # <<>> THEN w.statuses
    ELSE StripNonEmpty(SplitLines(w.status))

RECURSIVE FormatWhoisStatuses(_, _)
\* The loop over raw_statuses: the duplicate test compares the raw entry
\* with the codes kept so far.
FormatWhoisStatuses(raw_statuses, formatted_statuses) ==
    With2(raw_statuses, formatted_statuses, LAMBDA rest, formatted :
        IF rest = <<>> THEN formatted
        ELSE LET status == Head(rest)
             IN  With(IF Contains(status, "https://")
                      THEN Strip(BeforeFirst(status, " https://"))
                      ELSE Strip(status),
                      LAMBDA status_code :
                          FormatWhoisStatuses(Tail(rest),
                              IF status \in Range(formatted)
                              THEN formatted
                              ELSE IF status_code # ""
                                      /\ status_code # "Not found"
                              THEN Append(formatted, status_code)
                              ELSE formatted)))

WhoisStatuses(w) ==
    With(FormatWhoisStatuses(WhoisRawStatuses(w), <<>>),
         LAMBDA formatted_statuses :
             IF formatted_statuses # <<>> THEN formatted_statuses
             ELSE <<"Not found">>)

RECURSIVE LastLineWith(_, _, _)
\* The last line of the output that contains the label, "" without one.
LastLineWith(lines, label, found) ==
    With2(lines, found, LAMBDA rest, last :
        IF rest = <<>> THEN last
        ELSE LastLineWith(Tail(rest), label,
                 IF Contains(Head(rest), label) THEN Head(rest) ELSE last))

LineValue(line) == Strip(AfterFirst(line, ":"))

\* The direct `whois` command of the .us branch: cmd is
\* [ok |-> TRUE, stdout |-> text] or [ok |-> FALSE, error |-> str(e)].
UsNexusCategories(cmd) ==
    IF ~cmd.ok THEN "Whois command failed: " \o cmd.error
    ELSE With(SplitLines(cmd.stdout), LAMBDA lines :
             With2(LastLineWith(lines, "Registrant Application Purpose:", ""),
                   LastLineWith(lines, "Registrant Nexus Category:", ""),
                   LAMBDA app_purpose_line, nexus_category_line :
                 LET purpose == IF app_purpose_line = "" THEN <<>>
                                ELSE <<"Application Purpose: "
                                           \o LineValue(app_purpose_line)>>
                     category == IF nexus_category_line = "" THEN <<>>
                                 ELSE <<"Nexus Category: "
                                            \o LineValue(nexus_category_line)>>
                 IN  With(purpose \o category, LAMBDA nexus_results :
                         IF Len(nexus_results) = 2
                         THEN nexus_results[1] \o "; " \o nexus_results[2]
                         ELSE IF Len(nexus_results) = 1 THEN nexus_results[1]
                         ELSE "Not found in direct .US WHOIS output")))

UsRegistrantName(cmd, registrant_name) ==
    IF ~cmd.ok THEN registrant_name
    ELSE With(LastLineWith(SplitLines(cmd.stdout), "Registrant Name:", ""),
              LAMBDA registrant_name_line :
                  IF registrant_name_line = "" THEN registrant_name
                  ELSE LineValue(registrant_name_line))

\* The record query_whois builds from a usable answer.
WhoisParsed(domain_query, w, cmd) ==
    [domain           |-> JStr(domain_query),
     registrar        |-> JStr(IF w.registrar # "" THEN w.registrar
                               ELSE "Not found"),
     registrant_name  |->
         JStr(IF IsDotUs(domain_query)
              THEN UsRegistrantName(cmd, WhoisRegistrantName(domain_query, w))
              ELSE WhoisRegistrantName(domain_query, w)),
     statuses         |-> JList(WhoisStatuses(w)),
     creation_date    |-> JStr(IF w.creation_date # "" THEN w.creation_date
                               ELSE "Not found"),
     nexus_categories |-> JStr(IF IsDotUs(domain_query)
                               THEN UsNexusCategories(cmd)
                               ELSE "N/A (not .US domain)"),
     nameservers      |-> JList(IF w.name_servers # <<>> THEN w.name_servers
                                ELSE <<"Not found">>)]


\* ------------------------------------------------------- request inputs
\* Entries a client may submit in `domains`.
DomainPool == {"a.io", " A.IO ", "NeuStar.biz", "limit.us", " "}

RawDomainLists == UNION {[1..n -> DomainPool] : n \in 0..MaxBatch}

\* Lists a client may submit in `fields`.
FieldChoices ==
    {<<"domain", "statuses", "bogus">>,
     <<"registrar", "nexus_categories">>,
     <<"bogus">>}

LookupRequest ==
    [domains : RawDomainLists, fields : FieldChoices, use_rdap : BOOLEAN]

\* The requests the fair runs start from.
FairDomainPool == {"a.io", "NeuStar.biz", "limit.us"}

FairLookupRequest ==
    [domains : UNION {[1..n -> FairDomainPool] : n \in 0..MaxBatch},
     fields : {<<"registrar", "nexus_categories">>},
     use_rdap : BOOLEAN]

NoRequest == [domains |-> <<>>, fields |-> <<>>, use_rdap |-> FALSE]

\* Names at the length limit of the validation loop: 255 characters (kept)
\* and 256 characters (dropped).
X16 == "xxxxxxxxxxxxxxxx"
X64 == X16 \o X16 \o X16 \o X16
TooLongName == X64 \o X64 \o X64 \o X64
LongestName == SubSeq(TooLongName, 1, Len(TooLongName) - 5) \o ".com"

\* Entries for the runs of the validation loop alone: spellings of one name,
\* another name and a blank entry; and lists with names at the length limit.
ValidationPool == {"a.com", "A.COM", " a.com ", "b.io", " "}

LengthLists ==
    {<<TooLongName>>, <<LongestName>>, <<" " \o TooLongName \o " ">>,
     <<" " \o LongestName \o " ">>, <<TooLongName, "b.io", LongestName>>,
     <<LongestName, "b.io", LongestName>>}

ValidationRequest ==
    [domains : UNION {[1..n -> ValidationPool] : n \in 0..MaxSubmitted}
                   \cup LengthLists,
     fields : {<<"domain">>},
     use_rdap : {FALSE}]

\* Requests around the batch limit: n distinct names, alone or after a blank
\* entry or a repeated name.
Numbered(n) == [i \in 1..n |-> "d" \o ToString(i) \o ".io"]

OversizeLists ==
    {Numbered(MAX_DOMAINS), Numbered(MAX_DOMAINS + 1),
     <<" ">> \o Numbered(MAX_DOMAINS + Oversize),
     <<"d1.io", "D1.io">> \o Numbered(MAX_DOMAINS + Oversize)}

OversizeRequest ==
    [domains : OversizeLists, fields : {<<"domain">>}, use_rdap : {FALSE}]

\* ------------------------------------------- answers of the outside world
BOOTSTRAP_URL == "https://data.iana.org/rdap/dns.json"

\* The IANA bootstrap document: `services`, each entry <<tlds, urls>>.
BootstrapServices ==
    << << <<"com", "net">>, <<"https://rdap.verisign.example/v1/">> >>,
       << <<"IO">>, <<"https://rdap.nic.example">> >> >>

\* Status codes an HTTP answer may carry when raise_for_status() raises.
BootstrapErrorCodes == {429, 500}
RdapErrorCodes == {404, 429}

\* str(e) of the httpx exception for a status code.
HttpErrorText(status_code) ==
    "Server answered " \o ToString(status_code)

\* RDAP response bodies.
RdapFull ==
    [entities |-> << [roles |-> <<"abuse">>, fn |-> <<"Abuse Desk">>],
                     [roles |-> <<"registrar">>, fn |-> <<"Example Registrar">>] >>,
     status |-> <<"clientTransferProhibited https://icann.org/epp#clientTransferProhibited; ok">>,
     domainStatus |-> <<>>,
     events |-> << [eventAction |-> "last changed", eventDate |-> "2020-02-02T00:00:00Z"],
                   [eventAction |-> "registration", eventDate |-> "2010-01-01T00:00:00Z"] >>,
     nameservers |-> << [ldhName |-> "ns1.example.net"], [ldhName |-> ""] >>]

RdapBare ==
    [entities |-> <<>>, status |-> <<>>, domainStatus |-> <<>>,
     events |-> <<>>, nameservers |-> <<>>]

RdapResponses == {RdapFull, RdapBare}

\* Answers of whois.query.
WhoisFull ==
    [registrar |-> "Example Registrar",
     text |-> "Domain Name: example\nRegistrant Name: Jane Roe\n",
     statuses |-> <<"clientHold https://icann.org/epp#clientHold", "ok">>,
     status |-> "",
     creation_date |-> "2010-01-01T00:00:00",
     name_servers |-> <<"ns1.example.net">>]

WhoisNoMatch ==
    [registrar |-> "", text |-> "No match for domain", statuses |-> <<>>,
     status |-> "", creation_date |-> "", name_servers |-> <<>>]

WhoisAnswers == {WhoisFull, WhoisNoMatch}

\* Exceptions whois.query may raise: str(e) and what the failure is.
WhoisExceptions ==
    {[text |-> "connection timed out", kind |-> "LookupFailed"],
     [text |-> "WHOIS query limit exceeded", kind |-> "RateLimited"]}

\* Results of the direct `whois` command (.us only).
NoCmd == [ok |-> FALSE, error |-> ""]

WhoisCommandResults ==
    {[ok |-> TRUE,
      stdout |-> "Registrant Name: Jane Roe\nRegistrant Nexus Category: C11\n"],
     [ok |-> FALSE, error |-> "whois: command not found"]}

\* What a failed HTTP status is, in the terms of the error taxonomy.
HttpFailureKind(status_code) ==
    IF status_code = 404 THEN "NotFound"
    ELSE IF status_code = 429 THEN "RateLimited"
    ELSE "LookupFailed"

\* ------------------------------------------------------------------ state
VARIABLES
    raw_request,    \* the body of the POST, as submitted
    request,        \* cleaned_request handed to the generator
    client_state,   \* the httpx.AsyncClient: "none", "open" or "closed"
    gen,            \* which generator the response streams
    pc,             \* where that generator is suspended
    domain_list,    \* the generator's domain_list
    idx,            \* position of domain_to_lookup in domain_list
    rate_limit_reached_globally,
    current_result,
    lookup_method_used,
    events,         \* the events yielded so far
    calls,          \* outbound calls started so far, each with its outcome
    payload,        \* the raw answer a normalizer is given
    parsed,         \* the record that normalizer returns
    other           \* a second request being streamed: its frame while the
                    \* event loop runs this one

vars == <<raw_request, request, client_state, gen, pc, domain_list, idx,
          rate_limit_reached_globally, current_result, lookup_method_used,
          events, calls, payload, parsed, other>>

\* No answer under normalization; no second request.
NoPayload == [kind |-> "none"]
NoFrame == [pc |-> "none"]

Init ==
    /\ raw_request \in LookupRequest
    /\ request = NoRequest
    /\ client_state = "none"
    /\ gen = "none"
    /\ pc = "endpoint"
    /\ domain_list = <<>>
    /\ idx = 0
    /\ rate_limit_reached_globally = FALSE
    /\ current_result = EmptyDict
    /\ lookup_method_used = ""
    /\ events = <<>>
    /\ calls = <<>>
    /\ payload = NoPayload
    /\ parsed = EmptyDict
    /\ other = NoFrame

\* --------------------------------------------------- whois_lookup_endpoint
\* ValidateEntry that compares the trimmed entries as they are.
ValidateEntry_CaseSensitive(d, st) ==
    With2(Strip(d), st, LAMBDA dn, loop :
        IF dn = "" \/ Len(dn) > MAX_DOMAIN_LEN \/ dn \in loop.seen
        THEN loop
        ELSE [seen |-> loop.seen \cup {dn},
              cleaned_domains |-> Append(loop.cleaned_domains, dn)])

\* One pass of the validation loop, on entry d: trim, skip an empty or
\* over-long entry, skip a case-insensitive repeat, keep the rest.  st is the
\* loop's state, [seen, cleaned_domains].
ValidateEntry(d, st) ==
    With2(Strip(d), st, LAMBDA dn, loop :
        With(Lower(dn), LAMBDA key :
            IF dn = "" \/ Len(dn) > MAX_DOMAIN_LEN \/ key \in loop.seen
            THEN loop
            ELSE [seen |-> loop.seen \cup {key},
                  cleaned_domains |-> Append(loop.cleaned_domains, dn)]))

RECURSIVE ValidationLoop(_, _)
\* The validation loop over a run of entries: the passes over its first half,
\* then those over its second half.
ValidationLoop(domains, st) ==
    With2(domains, st, LAMBDA ds, loop :
        IF ds = <<>> THEN loop
        ELSE IF Len(ds) = 1 THEN ValidateEntry(ds[1], loop)
        ELSE ValidationLoop(SubSeq(ds, Len(ds) \div 2 + 1, Len(ds)),
                 ValidationLoop(SubSeq(ds, 1, Len(ds) \div 2), loop)))

\* The validation loop: trim, drop empty and over-long entries, drop
\* case-insensitive repeats.
CleanDomains(domains, seen, cleaned_domains) ==
    ValidationLoop(domains, [seen |-> seen,
                             cleaned_domains |-> cleaned_domains]).cleaned_domains

\* The handler without the batch limit.
CapDomains_NoCap(cleaned_domains) == cleaned_domains

\* cleaned_domains[:MAX_DOMAINS]
CapDomains(cleaned_domains) ==
    IF Len(cleaned_domains) > MAX_DOMAINS
    THEN SubSeq(cleaned_domains, 1, MAX_DOMAINS)
    ELSE cleaned_domains

\* The handler without the filter on field names.
CleanFields_KeepAll(fields) == fields

CleanFields(fields) == SelectSeq(fields, LAMBDA f : f \in ALLOWED_FIELDS)

\* The handler of POST /whois-lookup.  `async with` closes the client when
\* the handler returns the response, before the response is streamed.
whois_lookup_endpoint ==
    /\ pc = "endpoint"
    /\ \E cleaned_domains \in {CleanDomains(raw_request.domains, {}, <<>>)},
          cleaned_fields \in {CleanFields(raw_request.fields)} :
           IF cleaned_domains = <<>>
           THEN gen' = "error_gen" /\ UNCHANGED <<request, client_state>>
           ELSE IF cleaned_fields = <<>>
           THEN gen' = "error_gen2" /\ UNCHANGED <<request, client_state>>
           ELSE /\ gen' = "lookup_and_stream_generator"
                /\ request' = [domains |-> CapDomains(cleaned_domains),
                               fields |-> cleaned_fields,
                               use_rdap |-> raw_request.use_rdap]
                /\ client_state' = "closed"
    /\ pc' = "created"
    /\ UNCHANGED <<payload, parsed, other, raw_request, domain_list, idx, rate_limit_reached_globally,
                   current_result, lookup_method_used, events, calls>>

\* error_gen and error_gen2: a `total` of 0, then one `error`.
ErrorGenStep ==
    /\ gen \in {"error_gen", "error_gen2"}
    /\ \/ /\ pc = "created"
          /\ events' = Append(events, [event |-> "total", data |-> [total |-> 0]])
          /\ pc' = "yield_total"
       \/ /\ pc = "yield_total"
          /\ events' = Append(events,
                 [event |-> "error",
                  data |-> [message |->
                      IF gen = "error_gen" THEN "No valid domains provided."
                      ELSE "No valid fields requested."]])
          /\ pc' = "yield_error"
       \/ /\ pc = "yield_error"
          /\ events' = events
          /\ pc' = "done"
    /\ UNCHANGED <<payload, parsed, other, raw_request, request, client_state, gen, domain_list, idx,
                   rate_limit_reached_globally, current_result,
                   lookup_method_used, calls>>


\* --------------------------------------------- lookup_and_stream_generator
IsLookup == gen = "lookup_and_stream_generator"

RATE_LIMIT_TEXT == "Rate limit reached"

\* InitialResult without the line that always adds the domain.
InitialResult_NoDomain(fields, domain_to_lookup) ==
    [k \in Range(fields) |->
        IF k = "domain" THEN JStr(domain_to_lookup) ELSE JStr("Processing...")]

\* current_result as the loop body first builds it.
InitialResult(fields, domain_to_lookup) ==
    [k \in Range(fields) \cup {"domain"} |->
        IF k = "domain" THEN JStr(domain_to_lookup) ELSE JStr("Processing...")]

\* MarkFields that leaves the fields as they were initialised.
MarkFields_Skip(result, fields, v) == result

\* for field_key in fields: if field_key != "domain": result[field_key] = v
MarkFields(result, fields, v) ==
    [k \in DOMAIN result |->
        IF k \in Range(fields) /\ k # "domain" THEN v ELSE result[k]]

\* The result of a domain reached with the flag already set.
ShortCircuitResult(result, fields) ==
    Put(MarkFields(result, fields, JStr(RATE_LIMIT_TEXT)), "error_message",
        JStr("Rate limit reached, further lookups stopped."))

\* SuccessResult without the `_method` tag.
SuccessResult_Untagged(result, fields, raw_data, method) ==
    [k \in DOMAIN result |->
        IF k \in Range(fields) THEN Get(raw_data, k, JStr("Not found"))
        ELSE result[k]]

\* The result of a lookup that returned raw_data.
SuccessResult(result, fields, raw_data, method) ==
    Put([k \in DOMAIN result |->
            IF k \in Range(fields) THEN Get(raw_data, k, JStr("Not found"))
            ELSE result[k]],
        "_method", JStr(method))

\* `"Rate limit reached" in error_msg`
IsRateLimitMessage(error_msg) == Contains(error_msg, RATE_LIMIT_TEXT)

\* The result of a lookup that raised error_msg.
FailureResult(result, fields, error_msg) ==
    IF IsRateLimitMessage(error_msg)
    THEN Put(MarkFields(result, fields, JStr(RATE_LIMIT_TEXT)), "error_message",
             JStr("Rate limit reached. Subsequent lookups for other domains will also be marked as rate-limited."))
    ELSE Put(MarkFields(result, fields, JStr("Lookup failed")), "error_message",
             JStr("Failed: " \o error_msg))

ResultEvent(result) == [event |-> "result", data |-> result]

Call(i, kind, target) ==
    [i |-> i, kind |-> kind, target |-> target, outcome |-> "pending"]

\* Returned that issues a failed call once more.
Returned_Retry(outcome) ==
    IF outcome \in {"NotFound", "LookupFailed"}
    THEN Append([calls EXCEPT ![Len(calls)].outcome = outcome],
                calls[Len(calls)])
    ELSE [calls EXCEPT ![Len(calls)].outcome = outcome]

\* The call in flight gets its outcome.
Returned(outcome) == [calls EXCEPT ![Len(calls)].outcome = outcome]

\* yield the result event of the current domain (line 470).
YieldResult(result) ==
    /\ current_result' = result
    /\ events' = Append(events, ResultEvent(result))
    /\ pc' = "yield_result"

\* LookupFailedWith whose "Lookup failed" branch skips the yield.
LookupFailedWith_NoYield(error_msg) ==
    /\ rate_limit_reached_globally' =
           IF IsRateLimitMessage(error_msg) THEN TRUE
           ELSE rate_limit_reached_globally
    /\ current_result' = FailureResult(current_result, request.fields, error_msg)
    /\ events' = IF IsRateLimitMessage(error_msg)
                 THEN Append(events, ResultEvent(
                          FailureResult(current_result, request.fields, error_msg)))
                 ELSE events
    /\ pc' = "yield_result"

\* LookupFailedWith that never raises the flag.
LookupFailedWith_NoFlag(error_msg) ==
    /\ rate_limit_reached_globally' = rate_limit_reached_globally
    /\ YieldResult(FailureResult(current_result, request.fields, error_msg))

\* LookupFailedWith that lets a failure other than a rate limit leave the
\* generator.
LookupFailedWith_Raise(error_msg) ==
    IF IsRateLimitMessage(error_msg)
    THEN /\ rate_limit_reached_globally' = TRUE
         /\ YieldResult(FailureResult(current_result, request.fields, error_msg))
    ELSE /\ pc' = "done"
         /\ UNCHANGED <<rate_limit_reached_globally, current_result, events>>

\* The outer `except Exception as e` of the loop body.
LookupFailedWith(error_msg) ==
    /\ rate_limit_reached_globally' =
           IF IsRateLimitMessage(error_msg) THEN TRUE
           ELSE rate_limit_reached_globally
    /\ YieldResult(FailureResult(current_result, request.fields, error_msg))

\* RdapFailedWith that keeps the "RDAP" tag when it falls back.
RdapFailedWith_KeepTag(error_msg, kind) ==
    IF IsRateLimitMessage(error_msg)
    THEN /\ LookupFailedWith(error_msg)
         /\ calls' = Returned(kind)
         /\ UNCHANGED lookup_method_used
    ELSE /\ lookup_method_used' = lookup_method_used
         /\ calls' = Append(Returned(kind), Call(idx, "whois", domain_list[idx]))
         /\ pc' = "await_whois"
         /\ UNCHANGED <<rate_limit_reached_globally, current_result, events>>

\* RdapFailedWith that falls back to WHOIS on a rate limit too.
RdapFailedWith_AlwaysFallback(error_msg, kind) ==
    /\ lookup_method_used' = "WHOIS (RDAP fallback)"
    /\ calls' = Append(Returned(kind), Call(idx, "whois", domain_list[idx]))
    /\ pc' = "await_whois"
    /\ UNCHANGED <<rate_limit_reached_globally, current_result, events>>

\* The `except Exception as rdap_exc` around query_rdap: re-raise a rate
\* limit, otherwise start the WHOIS fallback.
RdapFailedWith(error_msg, kind) ==
    IF IsRateLimitMessage(error_msg)
    THEN /\ LookupFailedWith(error_msg)
         /\ calls' = Returned(kind)
         /\ UNCHANGED lookup_method_used
    ELSE /\ lookup_method_used' = "WHOIS (RDAP fallback)"
         /\ calls' = Append(Returned(kind), Call(idx, "whois", domain_list[idx]))
         /\ pc' = "await_whois"
         /\ UNCHANGED <<rate_limit_reached_globally, current_result, events>>

\* StartLookup that also starts the WHOIS query of the next domain, without
\* waiting for this one.
StartLookup_Prefetch(i, fresh) ==
    /\ lookup_method_used' = "WHOIS"
    /\ current_result' = fresh
    /\ calls' = IF i < Len(domain_list)
                THEN calls \o <<Call(i + 1, "whois", domain_list[i + 1]),
                                Call(i, "whois", domain_list[i])>>
                ELSE Append(calls, Call(i, "whois", domain_list[i]))
    /\ pc' = "await_whois"
    /\ UNCHANGED events

\* StartLookup that tries RDAP whatever the request says.
StartLookup_AlwaysRdap(i, fresh) ==
    /\ lookup_method_used' = "RDAP"
    /\ IF IsNeustar(domain_list[i])
       THEN /\ YieldResult(SuccessResult(fresh, request.fields,
                               NeustarSpecial, "RDAP"))
            /\ UNCHANGED calls
       ELSE /\ current_result' = fresh
            /\ calls' = Append(calls, Call(i, "bootstrap", BOOTSTRAP_URL))
            /\ pc' = "await_bootstrap"
            /\ UNCHANGED events

\* The lookup of the loop body up to its first suspend point: RDAP first
\* when the request asks for it (neustar.biz is answered without a call),
\* WHOIS directly otherwise.
StartLookup(i, fresh) ==
    IF request.use_rdap
    THEN /\ lookup_method_used' = "RDAP"
         /\ IF IsNeustar(domain_list[i])
            THEN /\ YieldResult(SuccessResult(fresh, request.fields,
                                    NeustarSpecial, "RDAP"))
                 /\ UNCHANGED calls
            ELSE /\ current_result' = fresh
                 /\ calls' = Append(calls, Call(i, "bootstrap", BOOTSTRAP_URL))
                 /\ pc' = "await_bootstrap"
                 /\ UNCHANGED events
    ELSE /\ lookup_method_used' = "WHOIS"
         /\ current_result' = fresh
         /\ calls' = Append(calls, Call(i, "whois", domain_list[i]))
         /\ pc' = "await_whois"
         /\ UNCHANGED events

\* One pass of the `for` loop from its head to its first suspend point, for
\* the i-th domain; past the last domain the generator ends.
ProcessDomain(i) ==
    IF i > Len(domain_list)
    THEN /\ pc' = "done"
         /\ UNCHANGED <<idx, current_result, lookup_method_used, events, calls>>
    ELSE LET fresh == InitialResult(request.fields, domain_list[i])
         IN  /\ idx' = i
             /\ IF rate_limit_reached_globally
                THEN /\ current_result' = ShortCircuitResult(fresh, request.fields)
                     /\ events' = Append(events,
                            ResultEvent(ShortCircuitResult(fresh, request.fields)))
                     /\ pc' = "yield_short_circuit"
                     /\ UNCHANGED <<lookup_method_used, calls>>
                ELSE StartLookup(i, fresh)

\* TotalEvent that counts the entries as submitted.
TotalEvent_Submitted(domains) ==
    [event |-> "total", data |-> [total |-> Len(raw_request.domains)]]

TotalEvent(domains) == [event |-> "total", data |-> [total |-> Len(domains)]]

\* First resumption: strip the domains again and yield `total`.
GenStart ==
    /\ IsLookup /\ pc = "created"
    /\ domain_list' = StripNonEmpty(request.domains)
    /\ events' = Append(events, TotalEvent(StripNonEmpty(request.domains)))
    /\ pc' = "yield_total"
    /\ UNCHANGED <<payload, parsed, other, raw_request, request, client_state, gen, idx,
                   rate_limit_reached_globally, current_result,
                   lookup_method_used, calls>>

\* Resumed after `total`: yield the `message` event.
GenYieldMessage ==
    /\ IsLookup /\ pc = "yield_total"
    /\ events' = Append(events,
           [event |-> "message", data |-> [message |-> "Lookup started"]])
    /\ pc' = "yield_message"
    /\ UNCHANGED <<payload, parsed, other, raw_request, request, client_state, gen, domain_list, idx,
                   rate_limit_reached_globally, current_result,
                   lookup_method_used, calls>>

\* Resumed after `message`: clear the flag and enter the loop.
GenEnterLoop ==
    /\ IsLookup /\ pc = "yield_message"
    /\ rate_limit_reached_globally' = FALSE
    /\ ProcessDomain(1)
    /\ UNCHANGED <<payload, parsed, other, raw_request, request, client_state, gen, domain_list>>

\* The bootstrap fetch returns (or raises): on success the RDAP query starts.
BootstrapReturns ==
    /\ IsLookup /\ pc = "await_bootstrap"
    /\ LET d == domain_list[idx]
       IN  \/ /\ calls' = Append(Returned("ok"),
                      Call(idx, "rdap",
                           RdapQueryUrl(FindRdapServer(BootstrapServices, Tld(d)), d)))
              /\ pc' = "await_rdap"
              /\ UNCHANGED <<rate_limit_reached_globally, current_result,
                             lookup_method_used, events>>
           \/ \E status_code \in BootstrapErrorCodes :
                  RdapFailedWith(
                      RdapStatusErrorMsg(d, status_code, HttpErrorText(status_code)),
                      HttpFailureKind(status_code))
           \/ /\ client_state = "closed"
              /\ RdapFailedWith(
                     RdapOtherErrorMsg(d,
                         "Cannot send a request, as the client has been closed."),
                     "LookupFailed")
    /\ UNCHANGED <<payload, parsed, other, raw_request, request, client_state, gen, domain_list, idx>>

\* The RDAP query returns a body, an error status, or fails to connect.
RdapReturns ==
    /\ IsLookup /\ pc = "await_rdap"
    /\ LET d == domain_list[idx]
       IN  \/ \E data \in RdapResponses :
                  /\ YieldResult(SuccessResult(current_result, request.fields,
                                     RdapParsed(d, data), lookup_method_used))
                  /\ calls' = Returned("ok")
                  /\ UNCHANGED <<rate_limit_reached_globally, lookup_method_used>>
           \/ \E status_code \in RdapErrorCodes :
                  RdapFailedWith(
                      RdapStatusErrorMsg(d, status_code, HttpErrorText(status_code)),
                      HttpFailureKind(status_code))
           \/ RdapFailedWith(RdapRequestErrorMsg(d, "connection refused"),
                             "LookupFailed")
    /\ UNCHANGED <<payload, parsed, other, raw_request, request, client_state, gen, domain_list, idx>>

\* whois.query returns None, returns an answer, or raises; for a .us domain
\* with a usable answer the direct whois command runs before the return.
WhoisReturns ==
    /\ IsLookup /\ pc = "await_whois"
    /\ LET d == domain_list[idx]
       IN  \/ /\ LookupFailedWith(
                     WhoisErrorMsg(d, WhoisInnerError(d, TRUE, WhoisNoMatch)))
              /\ calls' = Returned("NotFound")
           \/ \E w \in WhoisAnswers :
                  IF WhoisInnerError(d, FALSE, w) # ""
                  THEN /\ LookupFailedWith(
                              WhoisErrorMsg(d, WhoisInnerError(d, FALSE, w)))
                       /\ calls' = Returned("NotFound")
                  ELSE \E cmd \in (IF IsDotUs(d) THEN WhoisCommandResults
                                   ELSE {NoCmd}) :
                           /\ YieldResult(SuccessResult(current_result,
                                  request.fields, WhoisParsed(d, w, cmd),
                                  lookup_method_used))
                           /\ calls' = Returned("ok")
                           /\ UNCHANGED rate_limit_reached_globally
           \/ \E exc \in WhoisExceptions :
                  /\ LookupFailedWith(WhoisErrorMsg(d, exc.text))
                  /\ calls' = Returned(exc.kind)
    /\ UNCHANGED <<payload, parsed, other, raw_request, request, client_state, gen, domain_list, idx,
                   lookup_method_used>>

\* GenSleep without the delay: resumed after a `result`, the loop goes
\* straight to the next domain.
GenSleep_NoDelay ==
    /\ IsLookup /\ pc = "yield_result"
    /\ ProcessDomain(idx + 1)
    /\ UNCHANGED <<payload, parsed, other, raw_request, request, client_state,
                   gen, domain_list, rate_limit_reached_globally>>

\* Resumed after a `result`: start the pacing delay.
GenSleep ==
    /\ IsLookup /\ pc = "yield_result"
    /\ pc' = "sleep"
    /\ UNCHANGED <<payload, parsed, other, raw_request, request, client_state, gen, domain_list, idx,
                   rate_limit_reached_globally, current_result,
                   lookup_method_used, events, calls>>

\* The pacing delay ends: next domain.
SleepReturns ==
    /\ IsLookup /\ pc = "sleep"
    /\ ProcessDomain(idx + 1)
    /\ UNCHANGED <<payload, parsed, other, raw_request, request, client_state, gen, domain_list,
                   rate_limit_reached_globally>>

\* Resumed after the result of a short-circuited domain: `continue`.
GenContinue ==
    /\ IsLookup /\ pc = "yield_short_circuit"
    /\ ProcessDomain(idx + 1)
    /\ UNCHANGED <<payload, parsed, other, raw_request, request, client_state, gen, domain_list,
                   rate_limit_reached_globally>>

SuspendPoints ==
    {"yield_total", "yield_message", "await_bootstrap", "await_rdap",
     "await_whois", "yield_result", "yield_short_circuit", "sleep"}

\* Cancel as it would be if the loop body's `except Exception` caught the
\* cancellation of an awaited lookup: a "Lookup failed" result, and on.
Cancel_AsFailure ==
    /\ IsLookup /\ pc \in SuspendPoints
    /\ IF pc \in {"await_bootstrap", "await_rdap", "await_whois"}
       THEN /\ LookupFailedWith("")
            /\ calls' = Returned("cancelled")
       ELSE /\ pc' = "cancelled"
            /\ UNCHANGED <<rate_limit_reached_globally, current_result,
                           events, calls>>
    /\ UNCHANGED <<payload, parsed, other, raw_request, request, client_state,
                   gen, domain_list, idx, lookup_method_used>>

\* The client disconnects: the stream is cancelled where it is suspended.
Cancel ==
    /\ IsLookup /\ pc \in SuspendPoints
    /\ pc' = "cancelled"
    /\ calls' = IF pc \in {"await_bootstrap", "await_rdap", "await_whois"}
                THEN Returned("cancelled") ELSE calls
    /\ UNCHANGED <<payload, parsed, other, raw_request, request, client_state, gen, domain_list, idx,
                   rate_limit_reached_globally, current_result,
                   lookup_method_used, events>>

\* Every step but the client's disconnect.
Progress ==
    \/ whois_lookup_endpoint
    \/ ErrorGenStep
    \/ GenStart
    \/ GenYieldMessage
    \/ GenEnterLoop
    \/ BootstrapReturns
    \/ RdapReturns
    \/ WhoisReturns
    \/ GenSleep
    \/ SleepReturns
    \/ GenContinue

Next == Progress \/ Cancel

Spec == Init /\ [][Next]_vars

\* The event loop resumes the generator whenever what it waits for is ready.
FairInit == Init /\ raw_request \in FairLookupRequest

FairSpec == FairInit /\ [][Next]_vars /\ WF_vars(Progress)

\* The validation loop alone: the handler, then the generator it returns up
\* to its `total` event.
ValidationInit ==
    /\ raw_request \in ValidationRequest
    /\ request = NoRequest
    /\ client_state = "none"
    /\ gen = "none"
    /\ pc = "endpoint"
    /\ domain_list = <<>>
    /\ idx = 0
    /\ rate_limit_reached_globally = FALSE
    /\ current_result = EmptyDict
    /\ lookup_method_used = ""
    /\ events = <<>>
    /\ calls = <<>>
    /\ payload = NoPayload
    /\ parsed = EmptyDict
    /\ other = NoFrame

ValidationNext == whois_lookup_endpoint \/ ErrorGenStep \/ GenStart

ValidationSpec == ValidationInit /\ [][ValidationNext]_vars

\* Requests around the batch limit, streamed to the end with a WHOIS server
\* that answers every query or throttles the first one.
OversizeInit ==
    /\ raw_request \in OversizeRequest
    /\ request = NoRequest
    /\ client_state = "none"
    /\ gen = "none"
    /\ pc = "endpoint"
    /\ domain_list = <<>>
    /\ idx = 0
    /\ rate_limit_reached_globally = FALSE
    /\ current_result = EmptyDict
    /\ lookup_method_used = ""
    /\ events = <<>>
    /\ calls = <<>>
    /\ payload = NoPayload
    /\ parsed = EmptyDict
    /\ other = NoFrame

WhoisAnswersOrThrottlesFirst ==
    /\ WhoisReturns
    /\ \/ calls'[Len(calls')].outcome = "ok"
       \/ calls'[Len(calls')].outcome = "RateLimited" /\ idx = 1

OversizeNext ==
    \/ whois_lookup_endpoint
    \/ GenStart
    \/ GenYieldMessage
    \/ GenEnterLoop
    \/ WhoisAnswersOrThrottlesFirst
    \/ GenSleep
    \/ SleepReturns
    \/ GenContinue

OversizeSpec == OversizeInit /\ [][OversizeNext]_vars

\* ------------------------------------------------ the normalizers alone
\* Status values a registry or registrar may send.
StatusPool ==
    {"ok",
     "clientHold",
     "clientHold https://icann.org/epp#clientHold",
     "ok; clientHold",
     "clientTransferProhibited https://icann.org/epp#clientTransferProhibited; ok",
     "https://icann.org/epp#clientHold",
     ";",
     " ",
     "Not found"}

StatusLists == UNION {[1..n -> StatusPool] : n \in 0..MaxStatuses}

\* Raw answers: an RDAP body with its `status` member, a whois.query answer
\* with its `statuses` attribute.
RawAnswers ==
    {[kind |-> "rdap", data |-> [RdapBare EXCEPT !.status = l]] :
        l \in StatusLists}
    \cup {[kind |-> "whois", w |-> [WhoisFull EXCEPT !.statuses = l]] :
              l \in StatusLists}

NormalizerInit ==
    /\ payload \in RawAnswers
    /\ parsed = EmptyDict
    /\ pc = "normalizer"
    /\ raw_request = NoRequest
    /\ request = NoRequest
    /\ client_state = "none"
    /\ gen = "none"
    /\ domain_list = <<>>
    /\ idx = 0
    /\ rate_limit_reached_globally = FALSE
    /\ current_result = EmptyDict
    /\ lookup_method_used = ""
    /\ events = <<>>
    /\ calls = <<>>
    /\ other = NoFrame

\* query_rdap from response.json() to its return.
query_rdap ==
    /\ pc = "normalizer" /\ payload.kind = "rdap"
    /\ parsed' = RdapParsed("a.io", payload.data)
    /\ pc' = "done"
    /\ UNCHANGED <<payload, other, raw_request, request, client_state, gen,
                   domain_list, idx, rate_limit_reached_globally,
                   current_result, lookup_method_used, events, calls>>

\* query_whois from the answer of whois.query to its return.
query_whois ==
    /\ pc = "normalizer" /\ payload.kind = "whois"
    /\ parsed' = WhoisParsed("a.io", payload.w, NoCmd)
    /\ pc' = "done"
    /\ UNCHANGED <<payload, other, raw_request, request, client_state, gen,
                   domain_list, idx, rate_limit_reached_globally,
                   current_result, lookup_method_used, events, calls>>

NormalizerNext == query_rdap \/ query_whois

NormalizerSpec == NormalizerInit /\ [][NormalizerNext]_vars

\* ------------------------------------------------- two requests at a time
\* The state of the request being run: the handler's and the generator's
\* locals, the events its stream has carried and the calls it has made.
Frame ==
    [raw_request |-> raw_request, request |-> request,
     client_state |-> client_state, gen |-> gen, pc |-> pc,
     domain_list |-> domain_list, idx |-> idx,
     rate_limit_reached_globally |-> rate_limit_reached_globally,
     current_result |-> current_result,
     lookup_method_used |-> lookup_method_used,
     events |-> events, calls |-> calls]

NewFrame(req) ==
    [raw_request |-> req, request |-> NoRequest, client_state |-> "none",
     gen |-> "none", pc |-> "endpoint", domain_list |-> <<>>, idx |-> 0,
     rate_limit_reached_globally |-> FALSE, current_result |-> EmptyDict,
     lookup_method_used |-> "", events |-> <<>>, calls |-> <<>>]

\* Switch with rate_limit_reached_globally a module-level variable, shared
\* by the requests, instead of a local of the generator.
Switch_SharedFlag ==
    /\ other # NoFrame
    /\ other' = [Frame EXCEPT !.rate_limit_reached_globally =
                                  other.rate_limit_reached_globally]
    /\ raw_request' = other.raw_request
    /\ request' = other.request
    /\ client_state' = other.client_state
    /\ gen' = other.gen
    /\ pc' = other.pc
    /\ domain_list' = other.domain_list
    /\ idx' = other.idx
    /\ current_result' = other.current_result
    /\ lookup_method_used' = other.lookup_method_used
    /\ events' = other.events
    /\ calls' = other.calls
    /\ UNCHANGED <<rate_limit_reached_globally, payload, parsed>>

\* The event loop leaves the request it was running, suspended where it is,
\* and resumes the other one.  Each generator keeps its own locals.
Switch ==
    /\ other # NoFrame
    /\ other' = Frame
    /\ raw_request' = other.raw_request
    /\ request' = other.request
    /\ client_state' = other.client_state
    /\ gen' = other.gen
    /\ pc' = other.pc
    /\ domain_list' = other.domain_list
    /\ idx' = other.idx
    /\ rate_limit_reached_globally' = other.rate_limit_reached_globally
    /\ current_result' = other.current_result
    /\ lookup_method_used' = other.lookup_method_used
    /\ events' = other.events
    /\ calls' = other.calls
    /\ UNCHANGED <<payload, parsed>>

\* Two-domain requests answered over WHOIS.
ConcurrentRequest ==
    [domains : [1..2 -> {"a.io", "limit.us"}],
     fields : {<<"registrar", "nexus_categories">>},
     use_rdap : {FALSE}]

ConcurrentInit ==
    /\ raw_request \in ConcurrentRequest
    /\ request = NoRequest
    /\ client_state = "none"
    /\ gen = "none"
    /\ pc = "endpoint"
    /\ domain_list = <<>>
    /\ idx = 0
    /\ rate_limit_reached_globally = FALSE
    /\ current_result = EmptyDict
    /\ lookup_method_used = ""
    /\ events = <<>>
    /\ calls = <<>>
    /\ payload = NoPayload
    /\ parsed = EmptyDict
    /\ \E req \in ConcurrentRequest : other = NewFrame(req)

ConcurrentNext ==
    \/ whois_lookup_endpoint
    \/ GenStart
    \/ GenYieldMessage
    \/ GenEnterLoop
    \/ WhoisReturns
    \/ GenSleep
    \/ SleepReturns
    \/ GenContinue
    \/ Switch

ConcurrentSpec == ConcurrentInit /\ [][ConcurrentNext]_vars

TypeOK ==
    /\ pc \in {"endpoint", "created", "yield_error", "done", "cancelled",
              "normalizer"}
                 \cup SuspendPoints
    /\ gen \in {"none", "error_gen", "error_gen2", "lookup_and_stream_generator"}
    /\ client_state \in {"none", "open", "closed"}
    /\ rate_limit_reached_globally \in BOOLEAN
    /\ idx \in 0..Len(domain_list)


\* ------------------------------------------------------------ observations
ResultEvents == SelectSeq(events, LAMBDA e : e.event = "result")

Keys(e) == DOMAIN e.data

HasMethod(e) == "_method" \in Keys(e)
HasError(e) == "error_message" \in Keys(e)
Method(e) == IF HasMethod(e) THEN e.data["_method"].str ELSE ""

\* The calls made for the j-th domain, in order.
CallsOf(j) == SelectSeq(calls, LAMBDA c : c.i = j)
LastOutcome(j) ==
    IF CallsOf(j) = <<>> THEN "none" ELSE CallsOf(j)[Len(CallsOf(j))].outcome

\* Domains with a call that the remote side throttled.
RateLimitedDomains ==
    {calls[k].i : k \in {n \in DOMAIN calls : calls[n].outcome = "RateLimited"}}

\* Every requested field but `domain` holds the placeholder.
AllMarked(e, text) ==
    \A f \in Range(request.fields) \ {"domain"} :
        f \in Keys(e) /\ e.data[f] = JStr(text)

\* The result of a domain that was reached with the flag set.
IsShortCircuit(e) ==
    /\ HasError(e)
    /\ e.data["error_message"] =
           JStr("Rate limit reached, further lookups stopped.")

\* The RDAP attempt of the j-th domain failed, and not by throttling.
RdapFailedOtherwise(j) ==
    \E k \in DOMAIN calls :
        /\ calls[k].i = j
        /\ calls[k].kind \in {"bootstrap", "rdap"}
        /\ calls[k].outcome \in {"NotFound", "LookupFailed"}

WhoisCallsOf(j) == SelectSeq(CallsOf(j), LAMBDA c : c.kind = "whois")

StreamComplete ==
    IsLookup /\ pc = "done" /\ Len(ResultEvents) = Len(request.domains)

METHODS == {"RDAP", "WHOIS", "WHOIS (RDAP fallback)"}

\* -------------------------------------------------------------- properties

\* C1: the stream of a validated request carries one `result` per domain of
\* the cleaned list and in its order: never more results than domains, the
\* i-th result names the i-th domain (names compared without regard to
\* letter case), no domain is named twice, and a stream that ends has a
\* result for every domain.
C1_OneResultPerDomain ==
    IsLookup =>
        With2([i \in DOMAIN ResultEvents |->
                  Lower(ResultEvents[i].data["domain"].str)],
              [j \in DOMAIN request.domains |-> Lower(request.domains[j])],
              LAMBDA of, name :
                  LET named(j) == {i \in DOMAIN of : of[i] = name[j]}
                  IN  /\ Len(of) <= Len(name)
                      /\ \A i \in DOMAIN of : i \in named(i)
                      /\ \A j \in DOMAIN name : Cardinality(named(j)) <= 1
                      /\ pc = "done" =>
                             \A j \in DOMAIN name : named(j) = {j})

\* A two-domain stream that ended with a failed first and a successful
\* second domain.
C1_Witness ==
    /\ StreamComplete
    /\ Len(ResultEvents) = 2
    /\ HasError(ResultEvents[1])
    /\ HasMethod(ResultEvents[2])

C2_State ==
    IsLookup =>
        \A k \in RateLimitedDomains :
            /\ rate_limit_reached_globally
            /\ \A n \in DOMAIN calls : calls[n].i <= k
            /\ \A j \in (k + 1)..Len(ResultEvents) :
                   /\ HasError(ResultEvents[j])
                   /\ AllMarked(ResultEvents[j], RATE_LIMIT_TEXT)

\* C2: once a lookup of a domain was throttled, the flag is set, no call is
\* ever started for a later domain, every later result holds "Rate limit
\* reached" in each requested field but `domain` and has an error_message;
\* and a set flag stays set.
C2_CircuitBreaker ==
    /\ []C2_State
    /\ [][rate_limit_reached_globally => rate_limit_reached_globally']_vars

\* The first of two domains was throttled and the second got its result.
C2_Witness ==
    /\ StreamComplete
    /\ Len(ResultEvents) = 2
    /\ RateLimitedDomains = {1}
    /\ IsShortCircuit(ResultEvents[2])

\* C3: only throttling trips the breaker: the flag is set only if some call
\* was throttled, a domain whose last call ended NotFound or LookupFailed has
\* its fields marked "Lookup failed", and no domain is short-circuited unless
\* an earlier one was throttled.
C3_OnlyThrottlingTripsBreaker ==
    IsLookup =>
        /\ rate_limit_reached_globally => RateLimitedDomains # {}
        /\ \A j \in 1..Len(ResultEvents) :
               /\ LastOutcome(j) \in {"NotFound", "LookupFailed"} =>
                      AllMarked(ResultEvents[j], "Lookup failed")
               /\ IsShortCircuit(ResultEvents[j]) =>
                      \E k \in RateLimitedDomains : k < j

\* C4: unless the client disconnects, the stream of a validated request
\* reaches its end with a result for every domain.
C4_StreamCompletes == IsLookup ~> (pc = "cancelled" \/ StreamComplete)

\* A stream that went on to its end after a domain failed without
\* throttling.
C4_Witness ==
    /\ StreamComplete
    /\ Len(ResultEvents) = 2
    /\ LastOutcome(1) \in {"NotFound", "LookupFailed"}
    /\ AllMarked(ResultEvents[1], "Lookup failed")

\* C5: the events of a validated request are `total`, `message` ("Lookup
\* started"), then only `result`; the count in `total` is the number of
\* results of a stream that ended.
C5_EventOrder ==
    IsLookup =>
        /\ \A i \in DOMAIN events :
               events[i].event = (IF i = 1 THEN "total"
                                  ELSE IF i = 2 THEN "message" ELSE "result")
        /\ Len(events) >= 2 => events[2].data.message = "Lookup started"
        /\ pc = "done" => events[1].data.total = Len(ResultEvents)

\* A stream that ended for a request whose two entries were one domain.
C5_Witness ==
    /\ StreamComplete
    /\ Len(raw_request.domains) = 2
    /\ Len(ResultEvents) = 1
    /\ Len(events) = 3

\* C6 as claimed: with use_rdap, every domain whose RDAP attempt failed
\* without throttling has a result tagged "WHOIS (RDAP fallback)".
C6_Original ==
    IsLookup /\ request.use_rdap =>
        \A j \in 1..Len(ResultEvents) :
            RdapFailedOtherwise(j) =>
                Method(ResultEvents[j]) = "WHOIS (RDAP fallback)"

\* C6 amended: with use_rdap, a domain whose RDAP attempt failed without
\* throttling is tagged "WHOIS (RDAP fallback)" when the WHOIS query that
\* follows succeeds; when that query fails too the result has no `_method`
\* and carries an error_message.
C6_FallbackTag ==
    IsLookup /\ request.use_rdap =>
        \A j \in 1..Len(ResultEvents) :
            RdapFailedOtherwise(j) =>
                IF LastOutcome(j) = "ok"
                THEN Method(ResultEvents[j]) = "WHOIS (RDAP fallback)"
                ELSE ~HasMethod(ResultEvents[j]) /\ HasError(ResultEvents[j])

\* A result produced by WHOIS after the RDAP query itself failed.
C6_Witness ==
    /\ IsLookup /\ request.use_rdap
    /\ \E j \in 1..Len(ResultEvents) :
           /\ RdapFailedOtherwise(j)
           /\ Len(CallsOf(j)) = 3
           /\ LastOutcome(j) = "ok"
           /\ Method(ResultEvents[j]) = "WHOIS (RDAP fallback)"

\* C7: with use_rdap, a throttled bootstrap or RDAP call is the last call of
\* its domain (no WHOIS query follows), sets the flag, and the domain's
\* result holds the rate-limit placeholders and an error_message.
C7_NoFallbackOnRateLimit ==
    IsLookup /\ request.use_rdap =>
        \A k \in DOMAIN calls :
            (calls[k].kind \in {"bootstrap", "rdap"}
                 /\ calls[k].outcome = "RateLimited") =>
                LET j == calls[k].i
                IN  /\ k = Len(calls)
                    /\ WhoisCallsOf(j) = <<>>
                    /\ rate_limit_reached_globally
                    /\ Len(ResultEvents) >= j
                    /\ AllMarked(ResultEvents[j], RATE_LIMIT_TEXT)
                    /\ HasError(ResultEvents[j])
                    /\ ~HasMethod(ResultEvents[j])

\* The RDAP query of a domain was answered with 429.
C7_Witness ==
    /\ IsLookup /\ request.use_rdap
    /\ \E k \in DOMAIN calls :
           calls[k].kind = "rdap" /\ calls[k].outcome = "RateLimited"

\* C8 as claimed: without use_rdap every call is a WHOIS query, every domain
\* with a result got exactly one, and a successful result is tagged "WHOIS".
C8_Original ==
    IsLookup /\ ~request.use_rdap =>
        /\ \A k \in DOMAIN calls : calls[k].kind = "whois"
        /\ \A j \in 1..Len(ResultEvents) :
               /\ Len(CallsOf(j)) = 1
               /\ LastOutcome(j) = "ok" => Method(ResultEvents[j]) = "WHOIS"

\* C8 amended: without use_rdap every call is a WHOIS query; a domain reached
\* before the rate-limit flag is set gets exactly one, a domain reached after
\* it (short-circuited) gets none; and a result with a method tag, as every
\* successful one has, is tagged "WHOIS".
C8_WhoisOnly ==
    IsLookup /\ ~request.use_rdap =>
        /\ \A k \in DOMAIN calls : calls[k].kind = "whois"
        /\ \A j \in 1..Len(ResultEvents) :
               /\ Len(CallsOf(j)) =
                      (IF IsShortCircuit(ResultEvents[j]) THEN 0 ELSE 1)
               /\ HasMethod(ResultEvents[j]) => Method(ResultEvents[j]) = "WHOIS"
               /\ LastOutcome(j) = "ok" => Method(ResultEvents[j]) = "WHOIS"

\* Without use_rdap: a domain answered by WHOIS, then a domain whose WHOIS
\* query was refused for a rate limit.
C8_Witness ==
    /\ StreamComplete /\ ~request.use_rdap
    /\ Len(ResultEvents) = 2
    /\ Method(ResultEvents[1]) = "WHOIS"
    /\ Len(CallsOf(2)) = 1
    /\ LastOutcome(2) = "RateLimited"

\* C9: the `domain` of the i-th result is the i-th cleaned entry, which is a
\* submitted entry trimmed, letter case kept.
C9_DomainAsSubmitted ==
    IsLookup =>
        \A i \in 1..Len(ResultEvents) :
            /\ ResultEvents[i].data["domain"] = JStr(request.domains[i])
            /\ \E r \in Range(raw_request.domains) :
                   Strip(r) = ResultEvents[i].data["domain"].str

\* C10 as claimed: every result has a `_method` out of the three values, and
\* error_message is the only key beyond the requested ones, `domain` and
\* `_method`.
C10_Original ==
    IsLookup =>
        \A i \in 1..Len(ResultEvents) :
            /\ HasMethod(ResultEvents[i])
            /\ Method(ResultEvents[i]) \in METHODS
            /\ Keys(ResultEvents[i]) \subseteq
                   Range(request.fields) \cup {"domain", "_method", "error_message"}

\* The lookup of the i-th domain returned a record.
Succeeded(i) ==
    \/ LastOutcome(i) = "ok"
    \/ CallsOf(i) = <<>> /\ ~IsShortCircuit(ResultEvents[i])

\* C10 amended: a result has `_method`, out of the three values, exactly when
\* the lookup of its domain succeeded, and then no error_message; the result
\* of a failed, throttled or short-circuited domain has an error_message and
\* no `_method`.  The other keys are the requested fields and `domain`.
C10_MethodOnSuccess ==
    IsLookup =>
        \A i \in 1..Len(ResultEvents) :
            /\ HasMethod(ResultEvents[i]) <=> Succeeded(i)
            /\ HasMethod(ResultEvents[i]) <=> ~HasError(ResultEvents[i])
            /\ HasMethod(ResultEvents[i]) => Method(ResultEvents[i]) \in METHODS
            /\ Keys(ResultEvents[i]) \ {"_method", "error_message"}
                   = Range(request.fields) \cup {"domain"}

\* A stream with a successful and a failed domain.
C10_Witness ==
    /\ StreamComplete
    /\ Len(ResultEvents) = 2
    /\ HasMethod(ResultEvents[1]) /\ ~HasError(ResultEvents[1])
    /\ HasError(ResultEvents[2]) /\ ~HasMethod(ResultEvents[2])

\* The domain list the handler processes: cleaned_request.domains, none when
\* the request was refused.
Processed == IF IsLookup THEN request.domains ELSE <<>>

\* The k-th smallest member of a set of numbers.
Nth(S, k) == CHOOSE i \in S : Cardinality({j \in S : j <= i}) = k

\* C11: once the handler has run, the processed list has no two entries equal
\* after case folding, every entry is trimmed, non-empty and at most 255
\* characters long, and the list is exactly the trimmed first occurrences of
\* the submitted entries that are non-empty and short enough, in submission
\* order.
C11_Deduplicated ==
    pc # "endpoint" =>
        With([i \in DOMAIN raw_request.domains |->
                 Strip(raw_request.domains[i])],
             LAMBDA trimmed :
        With([i \in DOMAIN trimmed |-> Lower(trimmed[i])], LAMBDA folded :
        With(Processed, LAMBDA kept :
        With([i \in DOMAIN kept |-> Lower(kept[i])], LAMBDA key :
            LET valid(i) == trimmed[i] # "" /\ Len(trimmed[i]) <= 255
                first == {i \in DOMAIN trimmed :
                             /\ valid(i)
                             /\ \A j \in 1..(i - 1) :
                                    valid(j) => folded[j] # folded[i]}
            IN  /\ \A i, j \in DOMAIN kept : i # j => key[i] # key[j]
                /\ \A i \in DOMAIN kept :
                       /\ kept[i] # "" /\ Len(kept[i]) <= 255
                       /\ Strip(kept[i]) = kept[i]
                /\ Len(kept) = Cardinality(first)
                /\ \A k \in DOMAIN kept :
                       kept[k] = trimmed[Nth(first, k)]))))

\* A 255-character name was kept and a 256-character name dropped.
C11_LengthWitness ==
    /\ raw_request.domains = <<TooLongName, "b.io", LongestName>>
    /\ IsLookup
    /\ request.domains = <<"b.io", LongestName>>

\* ["a.com", "A.COM", " a.com "] was processed as ["a.com"].
C11_Witness ==
    /\ raw_request.domains = <<"a.com", "A.COM", " a.com ">>
    /\ IsLookup
    /\ request.domains = <<"a.com">>
    /\ domain_list = <<"a.com">>

\* C12 as claimed: never more than 500 results, and every result and every
\* call is for one of the first 500 submitted entries.
C12_Original ==
    pc # "endpoint" =>
        With2({Strip(raw_request.domains[j]) :
                  j \in 1..Min({MAX_DOMAINS, Len(raw_request.domains)})},
              ResultEvents,
              LAMBDA head, res :
                  /\ Len(res) <= MAX_DOMAINS
                  /\ \A i \in DOMAIN res : res[i].data["domain"].str \in head
                  /\ \A k \in DOMAIN calls : calls[k].target \in head)

\* C12: never more than 500 results; the i-th result and every call of the
\* i-th pass are for the i-th processed domain, with i at most 500; and the
\* processed list, fixed when the handler returns, is the first 500 (or all,
\* when fewer) of the valid first occurrences among the submitted entries, so
\* an entry submitted after the 500th is processed exactly when fewer than 500
\* valid distinct entries precede it.
C12_Capped ==
    /\ pc # "endpoint" =>
           With2(Processed, ResultEvents, LAMBDA kept, res :
               /\ Len(kept) <= MAX_DOMAINS
               /\ Len(res) <= Len(kept)
               /\ \A i \in DOMAIN res : res[i].data["domain"].str = kept[i]
               /\ \A k \in DOMAIN calls :
                      /\ calls[k].i \in DOMAIN kept
                      /\ calls[k].kind = "whois" =>
                             calls[k].target = kept[calls[k].i])
    /\ pc = "created" =>
           With([i \in DOMAIN raw_request.domains |->
                    Strip(raw_request.domains[i])],
                LAMBDA trimmed :
           With([i \in DOMAIN trimmed |-> Lower(trimmed[i])], LAMBDA folded :
           With({i \in DOMAIN trimmed :
                    /\ trimmed[i] # "" /\ Len(trimmed[i]) <= MAX_DOMAIN_LEN
                    /\ \A j \in 1..(i - 1) :
                           trimmed[j] # "" /\ Len(trimmed[j]) <= MAX_DOMAIN_LEN
                               => folded[j] # folded[i]},
                LAMBDA first :
               /\ Len(Processed) = Min({MAX_DOMAINS, Cardinality(first)})
               /\ \A i \in first :
                      With(Cardinality({j \in first : j <= i}), LAMBDA rank :
                          rank <= MAX_DOMAINS => Processed[rank] = trimmed[i]))))

\* A list of more than 500 entries that begins with a blank one was streamed
\* to the end: 500 results, the last of them for the entry submitted 501st.
C12_Witness ==
    /\ pc = "done" /\ IsLookup
    /\ Len(raw_request.domains) > MAX_DOMAINS
    /\ raw_request.domains[1] = " "
    /\ Len(ResultEvents) = MAX_DOMAINS
    /\ ResultEvents[MAX_DOMAINS].data["domain"].str
           = raw_request.domains[MAX_DOMAINS + 1]
    /\ \A i \in DOMAIN calls : calls[i].outcome = "ok"

\* No submitted entry survives trimming and the length check; no requested
\* field is an allowed one.
NoValidDomain ==
    \A i \in DOMAIN raw_request.domains :
        With(Strip(raw_request.domains[i]), LAMBDA dn :
            dn = "" \/ Len(dn) > MAX_DOMAIN_LEN)

NoValidField ==
    \A i \in DOMAIN raw_request.fields :
        raw_request.fields[i] \notin ALLOWED_FIELDS

\* C13: once the handler has run on a request whose domain list or field
\* list is empty after filtering, the stream is a prefix of <<`total` with
\* total 0, one `error`>>, it is exactly these two events when it has ended,
\* it never holds a `message` or `result` event, and no outbound call is made.
C13_ValidationShortCircuit ==
    (pc # "endpoint" /\ (NoValidDomain \/ NoValidField)) =>
        /\ gen = (IF NoValidDomain THEN "error_gen" ELSE "error_gen2")
        /\ calls = <<>>
        /\ Len(events) <= 2
        /\ \A i \in DOMAIN events :
               /\ events[i].event \notin {"message", "result"}
               /\ i = 1 => events[i] = [event |-> "total", data |-> [total |-> 0]]
               /\ i = 2 => /\ events[i].event = "error"
                           /\ events[i].data.message =
                                  (IF NoValidDomain
                                   THEN "No valid domains provided."
                                   ELSE "No valid fields requested.")
        /\ pc \in {"yield_error", "done"} => Len(events) = 2
        /\ pc \in {"created", "yield_total", "yield_error", "done"}

\* A request with a valid domain and only the field "bogus" was answered
\* with `total` 0 and one `error`, and the stream has ended.
C13_Witness ==
    /\ pc = "done"
    /\ ~NoValidDomain /\ NoValidField
    /\ raw_request.fields = <<"bogus">>
    /\ Len(events) = 2
    /\ events[2].event = "error"

\* An all-whitespace domain list was answered the same way.
C13_BlankWitness ==
    /\ pc = "done"
    /\ raw_request.domains = <<" ", " ">>
    /\ Len(events) = 2
    /\ events[1].data.total = 0
    /\ events[2].event = "error"

\* C14: the keys of every `result` event are the requested fields that are in
\* the allowed set, plus `domain`, plus at most `_method` and `error_message`:
\* a requested name outside the allowed set is never a key, every requested
\* allowed field is one, and `domain` is one whether requested or not.
C14_FieldFiltering ==
    With2(ResultEvents, Range(raw_request.fields), LAMBDA res, requested :
        \A i \in DOMAIN res :
            With(DOMAIN res[i].data, LAMBDA keys :
                /\ keys \subseteq (requested \cap ALLOWED_FIELDS)
                                    \cup {"domain", "_method", "error_message"}
                /\ (requested \ ALLOWED_FIELDS) \cap keys = {}
                /\ (requested \cap ALLOWED_FIELDS) \subseteq keys
                /\ "domain" \in keys))

\* A request for "domain", "statuses" and "bogus" got a successful result
\* whose keys are `domain`, `statuses` and `_method`.
C14_Witness ==
    /\ raw_request.fields = <<"domain", "statuses", "bogus">>
    /\ \E i \in DOMAIN events :
           /\ events[i].event = "result"
           /\ DOMAIN events[i].data = {"domain", "statuses", "_method"}

\* A request that did not ask for "domain" got a result that carries it.
C14_DomainWitness ==
    /\ "domain" \notin Range(raw_request.fields)
    /\ \E i \in DOMAIN events :
           /\ events[i].event = "result"
           /\ DOMAIN events[i].data =
                  {"domain", "registrar", "nexus_categories", "error_message"}

\* C15: a lookup is cancelled only by the cancellation of the stream, it is
\* the last call made, and its domain has no result; a cancelled stream holds
\* no `error` event and a result for each domain before the one in progress
\* only; the step that cancels adds no event, starts no call and changes no
\* result; and after it no step is taken: no event, no lookup.
C15_Cancellation ==
    /\ [](\A k \in DOMAIN calls :
             calls[k].outcome = "cancelled" =>
                 /\ pc = "cancelled"
                 /\ k = Len(calls)
                 /\ Len(ResultEvents) = calls[k].i - 1)
    /\ [](pc = "cancelled" =>
             /\ \A i \in DOMAIN events : events[i].event # "error"
             /\ Len(ResultEvents) \in {idx - 1, idx} \cap Nat
             /\ \A k \in DOMAIN calls : calls[k].i <= idx
             /\ \A k \in DOMAIN calls :
                    calls[k].outcome \in {"pending", "cancelled"} => k = Len(calls))
    /\ [][pc' = "cancelled" =>
              /\ events' = events
              /\ current_result' = current_result
              /\ Len(calls') = Len(calls)
              /\ \A k \in DOMAIN calls : calls'[k].outcome \in {calls[k].outcome, "cancelled"}]_vars
    /\ [][pc # "cancelled"]_vars

\* The stream was cancelled during the WHOIS query of the first of two
\* domains: that query is the last call, and no domain has a result.
C15_Witness ==
    /\ pc = "cancelled"
    /\ Len(domain_list) = 2 /\ idx = 1
    /\ calls # <<>>
    /\ calls[Len(calls)].kind = "whois"
    /\ calls[Len(calls)].outcome = "cancelled"
    /\ ResultEvents = <<>>

\* The stream was cancelled during the pacing delay after the first result.
C15_SleepWitness ==
    /\ pc = "cancelled"
    /\ Len(domain_list) = 2 /\ idx = 1
    /\ Len(ResultEvents) = 1
    /\ \A k \in DOMAIN calls : calls[k].outcome # "cancelled"

\* The result of the domain whose lookup raised the rate-limit signal.
IsRateLimitRaised(e) ==
    /\ HasError(e)
    /\ e.data["error_message"] =
           JStr("Rate limit reached. Subsequent lookups for other domains will also be marked as rate-limited.")

\* In the stream of the request with frame f, a domain is short-circuited
\* only after an earlier domain of that stream raised the rate-limit signal,
\* and the flag of f is set only if a domain of that stream raised it (so it
\* is unset when the request starts).
C16_FrameScoped(f) ==
    With(SelectSeq(f.events, LAMBDA e : e.event = "result"), LAMBDA res :
        /\ \A i \in DOMAIN res :
               IsShortCircuit(res[i]) =>
                   \E j \in 1..(i - 1) : IsRateLimitRaised(res[j])
        /\ f.rate_limit_reached_globally =>
               \E j \in DOMAIN res : IsRateLimitRaised(res[j])
        /\ f.pc \in {"endpoint", "created", "yield_total", "yield_message"} =>
               ~f.rate_limit_reached_globally)

\* C16: with two requests streamed concurrently, interleaved at their suspend
\* points, each stream short-circuits a domain only after a rate-limit
\* signal of its own, and each request starts with the flag unset.
C16_FlagScopedToRequest ==
    /\ C16_FrameScoped(Frame)
    /\ other # NoFrame => C16_FrameScoped(other)

\* One request is suspended in its pacing delay with its flag set, after the
\* rate-limit result of its first domain, while the other request has
\* looked up both of its domains with success.
C16_Witness ==
    /\ other # NoFrame
    /\ other.pc = "sleep" /\ other.idx = 1
    /\ other.rate_limit_reached_globally
    /\ ~rate_limit_reached_globally
    /\ pc = "yield_result" /\ idx = 2
    /\ Len(ResultEvents) = 2
    /\ HasMethod(ResultEvents[1]) /\ HasMethod(ResultEvents[2])

\* The calls that have not returned.
InFlight == {k \in DOMAIN calls : calls[k].outcome = "pending"}

\* C17: at most one outbound call of the request is in flight, and it is the
\* last one started; calls are made in the order of the domains; a call for
\* the i-th domain exists only when the results of the domains before it
\* have been emitted; and the step that starts a call for the i-th domain
\* starts one only, with no other in flight and those i - 1 results out.
C17_Sequential ==
    /\ [](/\ Cardinality(InFlight) <= 1
          /\ InFlight \subseteq {Len(calls)}
          /\ \A k \in DOMAIN calls : calls[k].i <= Len(ResultEvents) + 1
          /\ \A k \in DOMAIN calls : k > 1 => calls[k - 1].i <= calls[k].i)
    /\ [][Len(calls') > Len(calls) =>
              /\ Len(calls') = Len(calls) + 1
              /\ \A k \in DOMAIN calls : calls'[k].outcome # "pending"
              /\ Len(ResultEvents) >= calls'[Len(calls')].i - 1]_vars

\* The WHOIS query of the second domain is in flight, alone, after the result
\* of the first domain was emitted.
C17_Witness ==
    /\ pc = "await_whois" /\ idx = 2
    /\ Len(ResultEvents) = 1
    /\ InFlight = {Len(calls)}
    /\ calls[Len(calls)].i = 2
    /\ \E k \in DOMAIN calls : calls[k].i = 1

\* C18: for each domain there is at most one bootstrap fetch, one RDAP query
\* and one WHOIS query; the RDAP query follows the bootstrap fetch that
\* returned; a WHOIS query is the domain's last call, and it comes first or
\* right after an RDAP-side call that failed NotFound or LookupFailed, never
\* after one that was throttled or succeeded; so nothing follows a WHOIS
\* query, failed or not.
C18_NoRetries ==
    \A j \in 1..Len(domain_list) :
        With(CallsOf(j), LAMBDA cs :
            /\ \A kind \in {"bootstrap", "rdap", "whois"} :
                   Cardinality({p \in DOMAIN cs : cs[p].kind = kind}) <= 1
            /\ \A p \in DOMAIN cs :
                   /\ cs[p].kind = "bootstrap" => p = 1
                   /\ cs[p].kind = "rdap" =>
                          /\ p = 2
                          /\ cs[1].kind = "bootstrap" /\ cs[1].outcome = "ok"
                   /\ cs[p].kind = "whois" =>
                          /\ p = Len(cs)
                          /\ p > 1 =>
                                 /\ cs[p - 1].kind \in {"bootstrap", "rdap"}
                                 /\ cs[p - 1].outcome \in
                                        {"NotFound", "LookupFailed"}
                   /\ cs[p].outcome \in {"RateLimited", "cancelled", "pending"}
                          => p = Len(cs)
                   /\ (cs[p].kind = "rdap" /\ cs[p].outcome = "ok")
                          => p = Len(cs))

\* The first domain's RDAP query failed, its WHOIS fallback failed too, and
\* the stream went on to the second domain with no further call for the
\* first.
C18_Witness ==
    /\ idx = 2
    /\ Len(CallsOf(1)) = 3
    /\ CallsOf(1)[2].kind = "rdap"
    /\ CallsOf(1)[2].outcome \in {"NotFound", "LookupFailed"}
    /\ CallsOf(1)[3].kind = "whois"
    /\ CallsOf(1)[3].outcome \in {"NotFound", "LookupFailed"}
    /\ CallsOf(2) # <<>>

\* C19: in the record a normalizer returned, `statuses` has no token twice
\* and no empty token.
C19_NoDuplicateOrEmptyStatus ==
    parsed # EmptyDict =>
        With(parsed.statuses.list, LAMBDA statuses :
            /\ \A i, j \in DOMAIN statuses : i # j => statuses[i] # statuses[j]
            /\ \A i \in DOMAIN statuses : Strip(statuses[i]) # "")

\* C20: in the record query_rdap returned, `statuses` is not empty: it is
\* ["Not found"] or a list of cleaned tokens.
C20_RdapStatusesNeverEmpty ==
    (payload.kind = "rdap" /\ parsed # EmptyDict) =>
        With(parsed.statuses.list, LAMBDA statuses :
            /\ statuses # <<>>
            /\ \/ statuses = <<"Not found">>
               \/ \A i \in DOMAIN statuses :
                      statuses[i] \notin {"", "Not found"})

\* C21: in the record query_rdap returned, the compound status value
\* "clientTransferProhibited https://icann.org/epp#clientTransferProhibited; ok"
\* alone gives <<"clientTransferProhibited", "ok">>, and no token of
\* `statuses` contains "http://" or "https://".
C21_RdapStatusTokens ==
    (payload.kind = "rdap" /\ parsed # EmptyDict) =>
        With(parsed.statuses.list, LAMBDA statuses :
            /\ payload.data.status =
                   <<"clientTransferProhibited https://icann.org/epp#clientTransferProhibited; ok">>
                   => statuses = <<"clientTransferProhibited", "ok">>
            /\ \A i \in DOMAIN statuses :
                   /\ ~Contains(statuses[i], "http://")
                   /\ ~Contains(statuses[i], "https://"))

\* The compound value of the example was split and cleaned as stated.
C21_ExampleReached ==
    /\ payload.kind = "rdap"
    /\ payload.data.status =
           <<"clientTransferProhibited https://icann.org/epp#clientTransferProhibited; ok">>
    /\ parsed # EmptyDict
    /\ parsed.statuses.list = <<"clientTransferProhibited", "ok">>

\* C22 as claimed: every successful result for a domain outside .us that
\* carries nexus_categories has "N/A (not .US domain)" there.
C22_Original ==
    IsLookup =>
        With(ResultEvents, LAMBDA res :
            \A i \in DOMAIN res :
                (/\ HasMethod(res[i])
                 /\ "nexus_categories" \in Keys(res[i])
                 /\ ~IsDotUs(domain_list[i]))
                    => res[i].data["nexus_categories"]
                           = JStr("N/A (not .US domain)"))

\* C22: in a successful result that carries nexus_categories, the value is
\* "Not available via RDAP" when the record came from RDAP, whatever the
\* domain; when it came from WHOIS, directly or as the fallback, it is
\* "N/A (not .US domain)" exactly for the domains outside .us.
C22_NexusByProtocol ==
    IsLookup =>
        With(ResultEvents, LAMBDA res :
            \A i \in DOMAIN res :
                (HasMethod(res[i]) /\ "nexus_categories" \in Keys(res[i])) =>
                    With(res[i].data["nexus_categories"], LAMBDA nexus :
                        /\ Method(res[i]) = "RDAP" =>
                               nexus = JStr("Not available via RDAP")
                        /\ Method(res[i]) \in {"WHOIS", "WHOIS (RDAP fallback)"} =>
                               (nexus = JStr("N/A (not .US domain)"))
                                   = ~IsDotUs(domain_list[i])))

\* A domain outside .us was answered by its registry over RDAP, and its
\* result carries "Not available via RDAP" in nexus_categories.
C22_Witness ==
    /\ "nexus_categories" \in Range(request.fields)
    /\ Len(ResultEvents) >= 1
    /\ ~IsDotUs(domain_list[1]) /\ ~IsNeustar(domain_list[1])
    /\ Method(ResultEvents[1]) = "RDAP"
    /\ CallsOf(1) # <<>> /\ CallsOf(1)[Len(CallsOf(1))].kind = "rdap"
    /\ ResultEvents[1].data["nexus_categories"] = JStr("Not available via RDAP")

\* A domain outside .us was answered over WHOIS after its RDAP lookup
\* failed, and its result carries "N/A (not .US domain)".
C22_FallbackWitness ==
    /\ "nexus_categories" \in Range(request.fields)
    /\ Len(ResultEvents) >= 1
    /\ ~IsDotUs(domain_list[1])
    /\ Method(ResultEvents[1]) = "WHOIS (RDAP fallback)"
    /\ ResultEvents[1].data["nexus_categories"] = JStr("N/A (not .US domain)")

\* C23: whenever the generator is inside a bootstrap fetch or an RDAP query,
\* the client it was handed is open, and no RDAP-side call ever ends with
\* the client found closed.
C23_ClientOpenWhenUsed ==
    IsLookup =>
        /\ pc \in {"await_bootstrap", "await_rdap"} => client_state = "open"
        /\ \A k \in DOMAIN calls :
               calls[k].kind \in {"bootstrap", "rdap"} => client_state = "open"

\* C24: the pacing delay starts only right after a `result` was yielded, and
\* while it runs every domain up to the current one has its result; a step
\* that starts the first call of a domain after the first one is the end of
\* a pacing delay, taken when the results of all earlier domains are out.
C24_Pacing ==
    /\ [](pc = "sleep" =>
             /\ Len(ResultEvents) = idx
             /\ events[Len(events)].event = "result"
             /\ InFlight = {})
    /\ [][pc' = "sleep" => (pc = "yield_result" /\ events' = events)]_vars
    /\ [][(/\ Len(calls') > Len(calls)
            /\ calls'[Len(calls')].i > 1
            /\ \A k \in DOMAIN calls : calls[k].i # calls'[Len(calls')].i)
               => /\ pc = "sleep"
                  /\ Len(ResultEvents) = calls'[Len(calls')].i - 1]_vars

\* The pacing delay runs after the result of the first of two domains, whose
\* lookup went over the network; the second has not been started.
C24_Witness ==
    /\ pc = "sleep" /\ idx = 1
    /\ Len(domain_list) = 2
    /\ CallsOf(1) # <<>> /\ CallsOf(2) = <<>>
    /\ Len(ResultEvents) = 1
    /\ ~rate_limit_reached_globally

\* C25: in every `result` event no requested field holds "Processing...";
\* in a result with an error_message every requested field but `domain`
\* holds "Lookup failed" or "Rate limit reached", and in a successful one
\* none of them holds either of these.
C25_NoPlaceholder ==
    IsLookup =>
        With(ResultEvents, LAMBDA res :
            \A i \in DOMAIN res :
                \A f \in Range(request.fields) :
                    /\ f \in Keys(res[i])
                    /\ res[i].data[f] # JStr("Processing...")
                    /\ (f # "domain" /\ HasError(res[i])) =>
                           res[i].data[f] \in {JStr("Lookup failed"),
                                               JStr(RATE_LIMIT_TEXT)}
                    /\ (f # "domain" /\ HasMethod(res[i])) =>
                           res[i].data[f] \notin {JStr("Lookup failed"),
                                                  JStr(RATE_LIMIT_TEXT)})

\* The first domain's lookup failed and its result holds "Lookup failed"
\* in the requested registrar field.
C25_Witness ==
    /\ pc = "yield_result" /\ idx = 1
    /\ "registrar" \in Range(request.fields)
    /\ Len(ResultEvents) = 1
    /\ HasError(ResultEvents[1])
    /\ ResultEvents[1].data["registrar"] = JStr("Lookup failed")

\* A successful result holds "Not found" for a requested field the record
\* lacks a value for.
C25_NotFoundWitness ==
    /\ Len(ResultEvents) >= 1
    /\ "statuses" \in Range(request.fields)
    /\ HasMethod(ResultEvents[1])
    /\ ResultEvents[1].data["statuses"] = JList(<<"Not found">>)


====
